---- MODULE Spec2Model ----
(***************************************************************************)
(* opendora: the DORA "Register of Information" tables (src/opendora/      *)
(* model.py) and the database they are created in (src/opendora/db.py).    *)
(*                                                                         *)
(* A cell value is a sequence of one-character strings (a Python str, or   *)
(* the text of an int, a Decimal or a date); Python's None, True and False *)
(* are the one-token sequences None, True and False.  A row is a function  *)
(* from the column names of its table to cell values.                      *)
(***************************************************************************)
EXTENDS Integers, Sequences, FiniteSets, TLC

VARIABLES
  register,   \* table name -> the set of rows stored in that table
  log,        \* <<table, row>> -> the result of the first validation of that row
  call        \* the last operation performed and what it returned

vars == <<register, log, call>>

-----------------------------------------------------------------------------
(* Cell values *)

None == <<"None">>
True == <<"True">>
False == <<"False">>

Rep(c, n) == [i \in 1..n |-> c]

\* model.py:14  LEI_PATTERN = r"^[0-9A-Z]{18}[0-9]{2}$"
LEI_PATTERN == "^[0-9A-Z]{18}[0-9]{2}$"

Digits == {"0", "1", "2", "3", "4", "5", "6", "7", "8", "9"}
Uppers == {"A", "B", "C", "D", "E", "F", "G", "H", "I", "J", "K", "L", "M",
           "N", "O", "P", "Q", "R", "S", "T", "U", "V", "W", "X", "Y", "Z"}

\* The number of leading [0-9A-Z] characters and of trailing [0-9] characters
\* LEI_PATTERN asks for.
LeiBodyLen == 18
LeiCheckLen == 2

\* re.match(LEI_PATTERN, v): 18 characters of [0-9A-Z], then 2 of [0-9], and
\* nothing else.
MatchLEI(v) ==
  /\ Len(v) = LeiBodyLen + LeiCheckLen
  /\ \A i \in 1..LeiBodyLen : v[i] \in Digits \cup Uppers
  /\ \A i \in (LeiBodyLen + 1)..(LeiBodyLen + LeiCheckLen) : v[i] \in Digits

Matches(pattern, v) == pattern = LEI_PATTERN /\ MatchLEI(v)

\* Field(...) of sqlmodel: a column declaration, the annotation kept as written.
Field(name, type, opts) == [name |-> name, type |-> type, opts |-> opts]

-----------------------------------------------------------------------------
(* The table classes of model.py, field by field, in declaration order.  An  *)
(* en dash in a table name is written "-".                                   *)

\* class MaintainingEntity(SQLModel, table=True), model.py:35-59
MaintainingEntity ==
  [ table_code |-> <<"B", ".", "0", "1", ".", "0", "1">>,
    table_name |-> "Financial entity maintaining the register of information",
    fields |-> <<
      Field("lei", "str",
        [ primary_key |-> TRUE,
          min_length |-> 20,
          max_length |-> 20,
          regex |-> LEI_PATTERN,
          title |-> "0010",
          description |-> "LEI of the entity maintaining the register of information" ]),
      Field("name", "str",
        [ max_length |-> 255,
          title |-> "0020",
          description |-> "Name of the entity" ]),
      Field("country", "CountryAlpha2",
        [ min_length |-> 2,
          max_length |-> 2,
          title |-> "0030",
          description |-> "Country of the entity" ]),
      Field("type", "str",
        [ max_length |-> 255,
          title |-> "0040",
          description |-> "Type of entity" ]),
      Field("competent_authority", "str",
        [ max_length |-> 255,
          title |-> "0050",
          description |-> "Competent Authority" ]),
      Field("reporting_date", "date",
        [ title |-> "0060",
          description |-> "Date of the reporting" ])
    >>,
    field_validators |-> <<>>,
    model_validators |-> <<>> ]

\* RegisterEntity with parent_lei declared str, a required column, instead of str | None
RegisterEntityWithRequiredParent ==
  [ table_code |-> <<"B", ".", "0", "1", ".", "0", "2">>,
    table_name |-> "List of financial entities within the scope of the register of information",
    fields |-> <<
      Field("lei", "str",
        [ primary_key |-> TRUE,
          min_length |-> 20,
          max_length |-> 20,
          regex |-> LEI_PATTERN,
          title |-> "0010",
          description |-> "LEI of the entity" ]),
      Field("name", "str",
        [ max_length |-> 255,
          title |-> "0020",
          description |-> "Name of the entity" ]),
      Field("country", "CountryAlpha2",
        [ min_length |-> 2,
          max_length |-> 2,
          title |-> "0030",
          description |-> "Country of the entity" ]),
      Field("type", "str",
        [ max_length |-> 255,
          title |-> "0040",
          description |-> "Type of entity" ]),
      Field("hierarchy", "str | None",
        [ default |-> None,
          max_length |-> 255,
          title |-> "0050",
          description |-> "Hierarchy of the entity within the group (where applicable)" ]),
      Field("parent_lei", "str",
        [ min_length |-> 20,
          max_length |-> 20,
          regex |-> LEI_PATTERN,
          foreign_key |-> <<"RegisterEntity", "lei">>,
          title |-> "0060",
          description |-> "LEI of the direct parent undertaking of the financial entity" ]),
      Field("last_update_date", "date",
        [ title |-> "0070",
          description |-> "Date of last update" ]),
      Field("integration_date", "date",
        [ title |-> "0080",
          description |-> "Date of integration in the Register of information" ]),
      Field("deletion_date", "date | None",
        [ default |-> None,
          title |-> "0090",
          description |-> "Date of deletion in the Register of information" ]),
      Field("currency", "ISO4217 | None",
        [ default |-> None,
          min_length |-> 3,
          max_length |-> 3,
          title |-> "0100",
          description |-> "Currency" ]),
      Field("total_assets", "Decimal | None",
        [ default |-> None,
          ge |-> 0,
          decimal_places |-> 2,
          title |-> "0110",
          description |-> "Value of total assets - of the financial entity" ])
    >>,
    field_validators |-> <<>>,
    model_validators |-> <<>> ]

\* class RegisterEntity(SQLModel, table=True), model.py:62-116
RegisterEntity ==
  [ table_code |-> <<"B", ".", "0", "1", ".", "0", "2">>,
    table_name |-> "List of financial entities within the scope of the register of information",
    fields |-> <<
      Field("lei", "str",
        [ primary_key |-> TRUE,
          min_length |-> 20,
          max_length |-> 20,
          regex |-> LEI_PATTERN,
          title |-> "0010",
          description |-> "LEI of the entity" ]),
      Field("name", "str",
        [ max_length |-> 255,
          title |-> "0020",
          description |-> "Name of the entity" ]),
      Field("country", "CountryAlpha2",
        [ min_length |-> 2,
          max_length |-> 2,
          title |-> "0030",
          description |-> "Country of the entity" ]),
      Field("type", "str",
        [ max_length |-> 255,
          title |-> "0040",
          description |-> "Type of entity" ]),
      Field("hierarchy", "str | None",
        [ default |-> None,
          max_length |-> 255,
          title |-> "0050",
          description |-> "Hierarchy of the entity within the group (where applicable)" ]),
      Field("parent_lei", "str | None",
        [ default |-> None,
          min_length |-> 20,
          max_length |-> 20,
          regex |-> LEI_PATTERN,
          foreign_key |-> <<"RegisterEntity", "lei">>,
          title |-> "0060",
          description |-> "LEI of the direct parent undertaking of the financial entity" ]),
      Field("last_update_date", "date",
        [ title |-> "0070",
          description |-> "Date of last update" ]),
      Field("integration_date", "date",
        [ title |-> "0080",
          description |-> "Date of integration in the Register of information" ]),
      Field("deletion_date", "date | None",
        [ default |-> None,
          title |-> "0090",
          description |-> "Date of deletion in the Register of information" ]),
      Field("currency", "ISO4217 | None",
        [ default |-> None,
          min_length |-> 3,
          max_length |-> 3,
          title |-> "0100",
          description |-> "Currency" ]),
      Field("total_assets", "Decimal | None",
        [ default |-> None,
          ge |-> 0,
          decimal_places |-> 2,
          title |-> "0110",
          description |-> "Value of total assets - of the financial entity" ])
    >>,
    field_validators |-> <<>>,
    model_validators |-> <<>> ]

\* class Branch(SQLModel, table=True), model.py:119-143
Branch ==
  [ table_code |-> <<"B", ".", "0", "1", ".", "0", "3">>,
    table_name |-> "List of branches",
    fields |-> <<
      Field("branch_code", "str",
        [ primary_key |-> TRUE,
          max_length |-> 255,
          title |-> "0010",
          description |-> "Identification table_code of the branch" ]),
      Field("head_office_lei", "str",
        [ primary_key |-> TRUE,
          min_length |-> 20,
          max_length |-> 20,
          regex |-> LEI_PATTERN,
          foreign_key |-> <<"RegisterEntity", "lei">>,
          title |-> "0020",
          description |-> "LEI of the financial entity head office of the branch" ]),
      Field("name", "str",
        [ max_length |-> 255,
          title |-> "0030",
          description |-> "Name of the branch" ]),
      Field("country", "CountryAlpha2",
        [ min_length |-> 2,
          max_length |-> 2,
          title |-> "0040",
          description |-> "Country of the branch" ])
    >>,
    field_validators |-> <<>>,
    model_validators |-> <<>> ]

\* class GeneralInformation(SQLModel, table=True), model.py:146-178
GeneralInformation ==
  [ table_code |-> <<"B", ".", "0", "2", ".", "0", "1">>,
    table_name |-> "Contractual Arrangements - General Information",
    fields |-> <<
      Field("reference_number", "str",
        [ primary_key |-> TRUE,
          max_length |-> 255,
          title |-> "0010",
          description |-> "Contractual arrangement reference number" ]),
      Field("type", "str",
        [ max_length |-> 255,
          title |-> "0020",
          description |-> "Type of contractual arrangement" ]),
      Field("overarching_reference_number", "str | None",
        [ default |-> None,
          max_length |-> 255,
          foreign_key |-> <<"GeneralInformation", "reference_number">>,
          title |-> "0030",
          description |-> "Overarching contractual arrangement reference number" ]),
      Field("currency", "ISO4217",
        [ min_length |-> 3,
          max_length |-> 3,
          title |-> "0040",
          description |-> "Currency of the amount reported" ]),
      Field("annual_expense_or_estimated_cost", "Decimal",
        [ decimal_places |-> 2,
          title |-> "0050",
          description |-> "Annual expense or estimated cost of the contractual arrangement for the past year" ])
    >>,
    field_validators |-> <<>>,
    model_validators |-> <<>> ]

\* class SpecificInformation(SQLModel, table=True), model.py:181-289
SpecificInformation ==
  [ table_code |-> <<"B", ".", "0", "2", ".", "0", "2">>,
    table_name |-> "Contractual Arrangements - Specific information",
    fields |-> <<
      Field("reference_number", "str",
        [ primary_key |-> TRUE,
          max_length |-> 255,
          foreign_key |-> <<"GeneralInformation", "reference_number">>,
          title |-> "0010",
          description |-> "Contractual arrangement reference number" ]),
      Field("lei", "str",
        [ primary_key |-> TRUE,
          min_length |-> 20,
          max_length |-> 20,
          regex |-> LEI_PATTERN,
          foreign_key |-> <<"RegisterEntity", "lei">>,
          title |-> "0020",
          description |-> "LEI of the financial entity making use of the ICT service" ]),
      Field("tpp_code", "str",
        [ primary_key |-> TRUE,
          max_length |-> 255,
          title |-> "0030",
          description |-> "Identification table_code of the third-party service provider" ]),
      Field("tpp_code_type", "str | None",
        [ default |-> None,
          max_length |-> 255,
          title |-> "0040",
          description |-> "Type of table_code to identify the third-party service provider" ]),
      Field("function_identifier", "str",
        [ primary_key |-> TRUE,
          max_length |-> 255,
          title |-> "0050",
          description |-> "Function identifier" ]),
      Field("ict_services_type", "str",
        [ primary_key |-> TRUE,
          max_length |-> 255,
          title |-> "0060",
          description |-> "Type of ICT services" ]),
      Field("start_date", "date",
        [ title |-> "0070",
          description |-> "Start date of the contractual arrangement" ]),
      Field("end_date", "date",
        [ title |-> "0080",
          description |-> "End date of the contractual arrangement" ]),
      Field("reason_of_termination_or_ending", "str | None",
        [ default |-> None,
          max_length |-> 255,
          title |-> "0090",
          description |-> "Reason of the termination or ending of the contractual arrangement" ]),
      Field("entity_notice_period", "int | None",
        [ default |-> None,
          title |-> "0100",
          description |-> "Notice period for the financial entity" ]),
      Field("tpp_notice_period", "int | None",
        [ default |-> None,
          title |-> "0110",
          description |-> "Notice period for the ICT third-party service provider" ]),
      Field("governing_law_country", "CountryAlpha2 | None",
        [ default |-> None,
          min_length |-> 2,
          max_length |-> 2,
          title |-> "0120",
          description |-> "Country of the governing law of the contractual arrangement" ]),
      Field("ict_services_country", "CountryAlpha2",
        [ primary_key |-> TRUE,
          min_length |-> 2,
          max_length |-> 2,
          title |-> "0130",
          description |-> "Country of provision of the ICT services" ]),
      Field("data_storage", "bool",
        [ title |-> "0140",
          description |-> "Storage of data" ]),
      Field("data_at_rest_location", "CountryAlpha2",
        [ primary_key |-> TRUE,
          min_length |-> 2,
          max_length |-> 2,
          title |-> "0150",
          description |-> "Location of the data at rest (storage)" ]),
      Field("data_processing_location", "CountryAlpha2",
        [ primary_key |-> TRUE,
          min_length |-> 2,
          max_length |-> 2,
          title |-> "0160",
          description |-> "Location of management of the data (processing)" ]),
      Field("tpp_data_stored_sensitiveness", "str | None",
        [ default |-> None,
          max_length |-> 255,
          title |-> "0170",
          description |-> "Sensitiveness of the data stored by the ICT third-party service provider" ]),
      Field("ict_service_reliance", "str | None",
        [ default |-> None,
          max_length |-> 255,
          title |-> "0180",
          description |-> "Level of reliance on the ICT service supporting the critical or important function" ])
    >>,
    field_validators |-> <<>>,
    model_validators |-> <<>> ]

\* class IntraGroup(SQLModel, table=True), model.py:292-310
IntraGroup ==
  [ table_code |-> <<"B", ".", "0", "2", ".", "0", "3">>,
    table_name |-> "List of intra-group contractual arrangements",
    fields |-> <<
      Field("reference_number", "str",
        [ primary_key |-> TRUE,
          max_length |-> 255,
          title |-> "0010",
          description |-> "Contractual arrangement with ICT intra-group service provider" ]),
      Field("linked_contractual_arrangement_with_ict_tpp", "str",
        [ primary_key |-> TRUE,
          max_length |-> 255,
          foreign_key |-> <<"GeneralInformation", "reference_number">>,
          title |-> "0020",
          description |-> "Linked contractual arrangement with ICT third-party service provider" ])
    >>,
    field_validators |-> <<>>,
    model_validators |-> <<>> ]

\* class ReceivingSigningEntity(SQLModel, table=True), model.py:313-336
ReceivingSigningEntity ==
  [ table_code |-> <<"B", ".", "0", "3", ".", "0", "1">>,
    table_name |-> "Entities signing the Contractual Arrangements for receiving ICT service(s) or on behalf of the entities making use of the ICT service(s)",
    fields |-> <<
      Field("reference_number", "str",
        [ primary_key |-> TRUE,
          max_length |-> 255,
          foreign_key |-> <<"GeneralInformation", "reference_number">>,
          title |-> "0010",
          description |-> "Contractual arrangement reference number" ]),
      Field("lei", "str",
        [ primary_key |-> TRUE,
          min_length |-> 20,
          max_length |-> 20,
          regex |-> LEI_PATTERN,
          foreign_key |-> <<"RegisterEntity", "lei">>,
          title |-> "0020",
          description |-> "LEI of the entity signing the contractual arrangement" ])
    >>,
    field_validators |-> <<>>,
    model_validators |-> <<>> ]

\* class SigningServiceProvider(SQLModel, table=True), model.py:339-365
SigningServiceProvider ==
  [ table_code |-> <<"B", ".", "0", "3", ".", "0", "2">>,
    table_name |-> "Third-party service providers signing the Contractual Arrangements for providing ICT service(s)",
    fields |-> <<
      Field("reference_number", "str",
        [ primary_key |-> TRUE,
          max_length |-> 255,
          foreign_key |-> <<"GeneralInformation", "reference_number">>,
          title |-> "0010",
          description |-> "Contractual arrangement reference number" ]),
      Field("tpp_code", "str",
        [ primary_key |-> TRUE,
          max_length |-> 255,
          title |-> "0020",
          description |-> "Identification table_code of the third-party service provider" ]),
      Field("tpp_code_type", "str | None",
        [ default |-> None,
          max_length |-> 255,
          title |-> "0030",
          description |-> "Type of table_code of the third-party service provider" ])
    >>,
    field_validators |-> <<>>,
    model_validators |-> <<>> ]

\* class ProvidingSigningEntity(SQLModel, table=True), model.py:368-391
ProvidingSigningEntity ==
  [ table_code |-> <<"B", ".", "0", "3", ".", "0", "3">>,
    table_name |-> "Entities signing the Contractual Arrangements for providing ICT service(s)",
    fields |-> <<
      Field("reference_number", "str",
        [ primary_key |-> TRUE,
          max_length |-> 255,
          foreign_key |-> <<"GeneralInformation", "reference_number">>,
          title |-> "0010",
          description |-> "Contractual arrangement reference number" ]),
      Field("lei", "str",
        [ primary_key |-> TRUE,
          min_length |-> 20,
          max_length |-> 20,
          regex |-> LEI_PATTERN,
          foreign_key |-> <<"RegisterEntity", "lei">>,
          title |-> "0020",
          description |-> "LEI of the intra-group entity providing ICT service" ])
    >>,
    field_validators |-> <<>>,
    model_validators |-> <<>> ]

\* class UsingEntity(SQLModel, table=True), model.py:394-465
UsingEntity ==
  [ table_code |-> <<"B", ".", "0", "4", ".", "0", "1">>,
    table_name |-> "Financial entities making use of the ICT services",
    fields |-> <<
      Field("reference_number", "str",
        [ primary_key |-> TRUE,
          max_length |-> 255,
          foreign_key |-> <<"GeneralInformation", "reference_number">>,
          title |-> "0010",
          description |-> "Contractual arrangement reference number" ]),
      Field("lei", "str",
        [ primary_key |-> TRUE,
          min_length |-> 20,
          max_length |-> 20,
          regex |-> LEI_PATTERN,
          foreign_key |-> <<"RegisterEntity", "lei">>,
          title |-> "0020",
          description |-> "LEI of the financial entity" ]),
      Field("is_branch", "bool",
        [ title |-> "0030",
          description |-> "Is the entity making use of the ICT services a branch of a financial entity?" ]),
      Field("branch_code", "str",
        [ primary_key |-> TRUE,
          max_length |-> 255,
          title |-> "0040",
          description |-> "Identification table_code of the branch" ])
    >>,
    field_validators |-> <<[field |-> "identification_code", fn |-> "validate_branch_code"], [field |-> "identification_code", fn |-> "validate_branch_id"]>>,
    model_validators |-> <<[mode |-> "after", fn |-> "validate_entity_branch_consistency"]>> ]

\* ServiceProvider with decimal_places=2 left out of total_annual_expense_or_estimated_cost
ServiceProviderWithoutDecimalPlaces ==
  [ table_code |-> <<"B", ".", "0", "5", ".", "0", "1">>,
    table_name |-> "ICT third-party service provider",
    fields |-> <<
      Field("tpp_code", "str",
        [ primary_key |-> TRUE,
          max_length |-> 255,
          title |-> "0010",
          description |-> "Identification table_code of the third-party service provider" ]),
      Field("tpp_code_type", "str",
        [ max_length |-> 255,
          title |-> "0020",
          description |-> "Type of table_code of the third-party service provider" ]),
      Field("additional_identification_code", "int | None",
        [ default |-> None,
          title |-> "0030",
          description |-> "Additional identification table_code of the third-party service provider" ]),
      Field("additional_identification_code_type", "str | None",
        [ default |-> None,
          max_length |-> 255,
          title |-> "0040",
          description |-> "Type of additional identification table_code of the third-party service provider" ]),
      Field("legal_name", "str",
        [ max_length |-> 255,
          title |-> "0050",
          description |-> "Legal name of the third-party service provider" ]),
      Field("name_in_latin_alphabet", "str | None",
        [ default |-> None,
          max_length |-> 255,
          title |-> "0060",
          description |-> "Name of the ICT third-party service provider in Latin alphabet" ]),
      Field("person_type", "str",
        [ max_length |-> 255,
          title |-> "0070",
          description |-> "Type of person of the third-party service provider" ]),
      Field("country_of_headquarters", "CountryAlpha2",
        [ min_length |-> 2,
          max_length |-> 2,
          title |-> "0080",
          description |-> "Country of the third-party service provider's headquarters" ]),
      Field("currency", "ISO4217 | None",
        [ default |-> None,
          min_length |-> 3,
          max_length |-> 3,
          title |-> "0090",
          description |-> "Currency of the amount reported" ]),
      Field("total_annual_expense_or_estimated_cost", "Decimal | None",
        [ default |-> None,
          title |-> "0100",
          description |-> "Total annual expense or estimated cost of the third-party service provider" ]),
      Field("ultimate_parent_undertaking_tpp_code", "str",
        [ max_length |-> 255,
          title |-> "0110",
          description |-> "Identification table_code of the third-party service provider's ultimate parent undertaking" ]),
      Field("ultimate_parent_undertaking_tpp_code_type", "str | None",
        [ default |-> None,
          max_length |-> 255,
          title |-> "0120",
          description |-> "Type of table_code of the third-party service provider's ultimate parent undertaking" ])
    >>,
    field_validators |-> <<>>,
    model_validators |-> <<>> ]

\* class ServiceProvider(SQLModel, table=True), model.py:468-541
ServiceProvider ==
  [ table_code |-> <<"B", ".", "0", "5", ".", "0", "1">>,
    table_name |-> "ICT third-party service provider",
    fields |-> <<
      Field("tpp_code", "str",
        [ primary_key |-> TRUE,
          max_length |-> 255,
          title |-> "0010",
          description |-> "Identification table_code of the third-party service provider" ]),
      Field("tpp_code_type", "str",
        [ max_length |-> 255,
          title |-> "0020",
          description |-> "Type of table_code of the third-party service provider" ]),
      Field("additional_identification_code", "int | None",
        [ default |-> None,
          title |-> "0030",
          description |-> "Additional identification table_code of the third-party service provider" ]),
      Field("additional_identification_code_type", "str | None",
        [ default |-> None,
          max_length |-> 255,
          title |-> "0040",
          description |-> "Type of additional identification table_code of the third-party service provider" ]),
      Field("legal_name", "str",
        [ max_length |-> 255,
          title |-> "0050",
          description |-> "Legal name of the third-party service provider" ]),
      Field("name_in_latin_alphabet", "str | None",
        [ default |-> None,
          max_length |-> 255,
          title |-> "0060",
          description |-> "Name of the ICT third-party service provider in Latin alphabet" ]),
      Field("person_type", "str",
        [ max_length |-> 255,
          title |-> "0070",
          description |-> "Type of person of the third-party service provider" ]),
      Field("country_of_headquarters", "CountryAlpha2",
        [ min_length |-> 2,
          max_length |-> 2,
          title |-> "0080",
          description |-> "Country of the third-party service provider's headquarters" ]),
      Field("currency", "ISO4217 | None",
        [ default |-> None,
          min_length |-> 3,
          max_length |-> 3,
          title |-> "0090",
          description |-> "Currency of the amount reported" ]),
      Field("total_annual_expense_or_estimated_cost", "Decimal | None",
        [ default |-> None,
          decimal_places |-> 2,
          title |-> "0100",
          description |-> "Total annual expense or estimated cost of the third-party service provider" ]),
      Field("ultimate_parent_undertaking_tpp_code", "str",
        [ max_length |-> 255,
          title |-> "0110",
          description |-> "Identification table_code of the third-party service provider's ultimate parent undertaking" ]),
      Field("ultimate_parent_undertaking_tpp_code_type", "str | None",
        [ default |-> None,
          max_length |-> 255,
          title |-> "0120",
          description |-> "Type of table_code of the third-party service provider's ultimate parent undertaking" ])
    >>,
    field_validators |-> <<>>,
    model_validators |-> <<>> ]

\* ICTServicesType with primary_key=True left out of identifier
ICTServicesTypeWithoutKey ==
  [ table_code |-> None,
    table_name |-> "Type of ICT Services",
    fields |-> <<
      Field("identifier", "str",
        [ max_length |-> 50,
          description |-> "Type of ICT services identifier" ]),
      Field("name", "str",
        [ max_length |-> 50,
          description |-> "Type of ICT services name" ]),
      Field("description", "str",
        [ max_length |-> 255,
          description |-> "Type of ICT services description" ])
    >>,
    field_validators |-> <<>>,
    model_validators |-> <<>> ]

\* class ICTServicesType(SQLModel, table=True), model.py:544-556
ICTServicesType ==
  [ table_code |-> None,
    table_name |-> "Type of ICT Services",
    fields |-> <<
      Field("identifier", "str",
        [ primary_key |-> TRUE,
          max_length |-> 50,
          description |-> "Type of ICT services identifier" ]),
      Field("name", "str",
        [ max_length |-> 50,
          description |-> "Type of ICT services name" ]),
      Field("description", "str",
        [ max_length |-> 255,
          description |-> "Type of ICT services description" ])
    >>,
    field_validators |-> <<>>,
    model_validators |-> <<>> ]

\* SupplyChain with foreign_key=ServiceProvider.tpp_code left out of tpp_code
SupplyChainWithoutProviderKey ==
  [ table_code |-> <<"B", ".", "0", "5", ".", "0", "2">>,
    table_name |-> "ICT service supply chains",
    fields |-> <<
      Field("reference_number", "str",
        [ primary_key |-> TRUE,
          max_length |-> 255,
          foreign_key |-> <<"GeneralInformation", "reference_number">>,
          title |-> "0010",
          description |-> "Contractual arrangement reference number" ]),
      Field("ict_services_type", "str",
        [ primary_key |-> TRUE,
          max_length |-> 255,
          title |-> "0020",
          foreign_key |-> <<"ICTServicesType", "identifier">>,
          description |-> "Type of ICT services" ]),
      Field("tpp_code", "str",
        [ primary_key |-> TRUE,
          max_length |-> 255,
          title |-> "0030",
          description |-> "Identification table_code of the third-party service provider" ]),
      Field("tpp_code_type", "str | None",
        [ default |-> None,
          max_length |-> 255,
          title |-> "0040",
          description |-> "Type of table_code of the third-party service provider" ]),
      Field("rank", "int",
        [ primary_key |-> TRUE,
          title |-> "0050",
          description |-> "Rank" ]),
      Field("recipient_code", "str",
        [ primary_key |-> TRUE,
          max_length |-> 255,
          title |-> "0060",
          description |-> "Identification table_code of the recipient of sub-contracted ICT services" ]),
      Field("recipient_code_type", "str | None",
        [ default |-> None,
          max_length |-> 255,
          description |-> "Type of table_code of the recipient of sub-contracted ICT services" ])
    >>,
    field_validators |-> <<>>,
    model_validators |-> <<>> ]

\* class SupplyChain(SQLModel, table=True), model.py:559-603
SupplyChain ==
  [ table_code |-> <<"B", ".", "0", "5", ".", "0", "2">>,
    table_name |-> "ICT service supply chains",
    fields |-> <<
      Field("reference_number", "str",
        [ primary_key |-> TRUE,
          max_length |-> 255,
          foreign_key |-> <<"GeneralInformation", "reference_number">>,
          title |-> "0010",
          description |-> "Contractual arrangement reference number" ]),
      Field("ict_services_type", "str",
        [ primary_key |-> TRUE,
          max_length |-> 255,
          title |-> "0020",
          foreign_key |-> <<"ICTServicesType", "identifier">>,
          description |-> "Type of ICT services" ]),
      Field("tpp_code", "str",
        [ primary_key |-> TRUE,
          max_length |-> 255,
          foreign_key |-> <<"ServiceProvider", "tpp_code">>,
          title |-> "0030",
          description |-> "Identification table_code of the third-party service provider" ]),
      Field("tpp_code_type", "str | None",
        [ default |-> None,
          max_length |-> 255,
          title |-> "0040",
          description |-> "Type of table_code of the third-party service provider" ]),
      Field("rank", "int",
        [ primary_key |-> TRUE,
          title |-> "0050",
          description |-> "Rank" ]),
      Field("recipient_code", "str",
        [ primary_key |-> TRUE,
          max_length |-> 255,
          title |-> "0060",
          description |-> "Identification table_code of the recipient of sub-contracted ICT services" ]),
      Field("recipient_code_type", "str | None",
        [ default |-> None,
          max_length |-> 255,
          description |-> "Type of table_code of the recipient of sub-contracted ICT services" ])
    >>,
    field_validators |-> <<>>,
    model_validators |-> <<>> ]

\* class FunctionIdentification(SQLModel, table=True), model.py:606-651
FunctionIdentification ==
  [ table_code |-> <<"B", ".", "0", "6", ".", "0", "1">>,
    table_name |-> "Functions identification",
    fields |-> <<
      Field("identifier", "str",
        [ primary_key |-> TRUE,
          max_length |-> 255,
          title |-> "0010",
          description |-> "Function identifier" ]),
      Field("licensed_activity", "str",
        [ max_length |-> 255,
          title |-> "0020",
          description |-> "Licenced activity" ]),
      Field("function_name", "str",
        [ max_length |-> 255,
          title |-> "0030",
          description |-> "Function name" ]),
      Field("lei", "str",
        [ primary_key |-> TRUE,
          min_length |-> 20,
          max_length |-> 20,
          foreign_key |-> <<"RegisterEntity", "lei">>,
          description |-> "LEI of the financial entity" ]),
      Field("assessment", "str",
        [ max_length |-> 255,
          title |-> "0040",
          description |-> "Criticality or importance assessment" ]),
      Field("reasons", "str",
        [ max_length |-> 255,
          title |-> "0050",
          description |-> "Reasons for criticality or importance" ]),
      Field("assessment_date", "date",
        [ title |-> "0060",
          description |-> "Date of the last assessment of criticality or importance" ]),
      Field("recovery_time_objective", "int",
        [ title |-> "0070",
          description |-> "Recovery time objective of the function" ]),
      Field("recovery_point_objective", "int",
        [ title |-> "0080",
          description |-> "Recovery point objective of the function" ]),
      Field("impact_of_discontinuing", "str",
        [ max_length |-> 255,
          title |-> "0090",
          description |-> "Impact of discontinuing the function" ])
    >>,
    field_validators |-> <<>>,
    model_validators |-> <<>> ]

\* class Assessment(SQLModel, table=True), model.py:654-723
Assessment ==
  [ table_code |-> <<"B", ".", "0", "7", ".", "0", "1">>,
    table_name |-> "Assessment of the ICT services",
    fields |-> <<
      Field("reference_number", "str",
        [ primary_key |-> TRUE,
          max_length |-> 255,
          foreign_key |-> <<"GeneralInformation", "reference_number">>,
          title |-> "0010",
          description |-> "Contractual arrangement reference number" ]),
      Field("tpp_code", "str",
        [ primary_key |-> TRUE,
          max_length |-> 255,
          foreign_key |-> <<"ServiceProvider", "tpp_code">>,
          title |-> "0020",
          description |-> "Identification table_code of the third-party service provider" ]),
      Field("tpp_code_type", "str",
        [ max_length |-> 255,
          title |-> "0030",
          description |-> "Type of table_code of the third-party service provider" ]),
      Field("ict_services_type", "str",
        [ primary_key |-> TRUE,
          max_length |-> 255,
          title |-> "0040",
          foreign_key |-> <<"ICTServicesType", "identifier">>,
          description |-> "Type of ICT services" ]),
      Field("ict_tpp_substitutability", "str",
        [ max_length |-> 255,
          title |-> "0050",
          description |-> "Substitutability of the ICT third-party service provider" ]),
      Field("reason_if_ict_tpp_is_not_substitutable_or_difficult_to_be_substitutable", "str | None",
        [ default |-> None,
          max_length |-> 255,
          title |-> "0060",
          description |-> "Reason if the ICT third-party service provider is considered not substitutable or difficult to be substitutable" ]),
      Field("ict_tpp_last_audit_date", "date",
        [ title |-> "0070",
          description |-> "Date of the last audit on the ICT third-party service provider" ]),
      Field("has_exit_plan", "bool",
        [ title |-> "0080",
          description |-> "Existence of an exit plan" ]),
      Field("possibility_of_reintegration", "str",
        [ max_length |-> 255,
          title |-> "0090",
          description |-> "Possibility of reintegration of the contracted ICT service" ]),
      Field("discontinuing_impact", "str",
        [ max_length |-> 255,
          title |-> "0100",
          description |-> "Impact of discontinuing the ICT services" ]),
      Field("alternative_ict_tpp_identified", "bool",
        [ title |-> "0110",
          description |-> "Are there alternative ICT third-party service providers identified?" ]),
      Field("alternative_ict_tpp_identification", "str | None",
        [ default |-> None,
          max_length |-> 255,
          title |-> "0120",
          description |-> "Identification of alternative ICT TPP" ])
    >>,
    field_validators |-> <<>>,
    model_validators |-> <<>> ]

-----------------------------------------------------------------------------
(* The schema: the table classes by name *)

Tables ==
  << "MaintainingEntity", "RegisterEntity", "Branch", "GeneralInformation",
     "SpecificInformation", "IntraGroup", "ReceivingSigningEntity",
     "SigningServiceProvider", "ProvidingSigningEntity", "UsingEntity",
     "ServiceProvider", "ICTServicesType", "SupplyChain",
     "FunctionIdentification", "Assessment" >>

TableNames == {Tables[i] : i \in DOMAIN Tables}

Model(t) ==
  CASE t = "MaintainingEntity" -> MaintainingEntity
    [] t = "RegisterEntity" -> RegisterEntity
    [] t = "Branch" -> Branch
    [] t = "GeneralInformation" -> GeneralInformation
    [] t = "SpecificInformation" -> SpecificInformation
    [] t = "IntraGroup" -> IntraGroup
    [] t = "ReceivingSigningEntity" -> ReceivingSigningEntity
    [] t = "SigningServiceProvider" -> SigningServiceProvider
    [] t = "ProvidingSigningEntity" -> ProvidingSigningEntity
    [] t = "UsingEntity" -> UsingEntity
    [] t = "ServiceProvider" -> ServiceProvider
    [] t = "ICTServicesType" -> ICTServicesType
    [] t = "SupplyChain" -> SupplyChain
    [] t = "FunctionIdentification" -> FunctionIdentification
    [] t = "Assessment" -> Assessment

Has(f, opt) == opt \in DOMAIN f.opts

FieldsOf(t) == Model(t).fields

FieldIndex(t) == DOMAIN FieldsOf(t)

\* model_fields: the column names of a table, in declaration order
ColumnNames(t) == [i \in FieldIndex(t) |-> FieldsOf(t)[i].name]

ColumnSet(t) == {FieldsOf(t)[i].name : i \in FieldIndex(t)}

\* the columns declared primary_key=True
PrimaryKey(t) ==
  {FieldsOf(t)[i].name : i \in {j \in FieldIndex(t) : Has(FieldsOf(t)[j], "primary_key")}}

\* the columns declared with foreign_key=..., each with the (table, column) it names
ForeignKeys(t) ==
  {[column |-> FieldsOf(t)[i].name,
    ref_table |-> FieldsOf(t)[i].opts.foreign_key[1],
    ref_column |-> FieldsOf(t)[i].opts.foreign_key[2]] :
     i \in {j \in FieldIndex(t) : Has(FieldsOf(t)[j], "foreign_key")}}

\* "X | None" annotations
Optional(type) ==
  type \in {"str | None", "date | None", "int | None", "Decimal | None",
            "CountryAlpha2 | None", "ISO4217 | None"}

BaseType(type) ==
  CASE type \in {"str", "str | None"} -> "str"
    [] type \in {"date", "date | None"} -> "date"
    [] type \in {"int", "int | None"} -> "int"
    [] type \in {"Decimal", "Decimal | None"} -> "Decimal"
    [] type \in {"CountryAlpha2", "CountryAlpha2 | None"} -> "CountryAlpha2"
    [] type \in {"ISO4217", "ISO4217 | None"} -> "ISO4217"
    [] type = "bool" -> "bool"

\* the columns a stored row may not leave NULL
NotNullColumns(t) ==
  {FieldsOf(t)[i].name : i \in {j \in FieldIndex(t) : ~Optional(FieldsOf(t)[j].type)}}

-----------------------------------------------------------------------------
(* Python's str, int, Decimal and date, on cell values *)

Whitespace == {" ", "\t", "\n", "\r"}

Truthy(v) == v /= <<>>

RECURSIVE lstrip(_)
lstrip(v) ==
  IF v = <<>> THEN v
  ELSE IF Head(v) \in Whitespace THEN lstrip(Tail(v)) ELSE v

RECURSIVE rstrip(_)
rstrip(v) ==
  IF v = <<>> THEN v
  ELSE IF v[Len(v)] \in Whitespace THEN rstrip(SubSeq(v, 1, Len(v) - 1)) ELSE v

\* str.strip()
strip(v) == rstrip(lstrip(v))

AllDigits(v) == v /= <<>> /\ \A i \in DOMAIN v : v[i] \in Digits

IsToken(v) == v \in {None, True, False}

Unsigned(v) == IF v /= <<>> /\ Head(v) = "-" THEN Tail(v) ELSE v

IsNegative(v) ==
  /\ v /= <<>>
  /\ Head(v) = "-"
  /\ \E i \in DOMAIN v : v[i] \in Digits \ {"0"}

IsInt(v) == ~IsToken(v) /\ AllDigits(Unsigned(v))

\* the position of the decimal point, 0 when there is none
PointAt(v) ==
  IF \E i \in DOMAIN v : v[i] = "." THEN CHOOSE i \in DOMAIN v : v[i] = "." ELSE 0

IntegerPart(v) == IF PointAt(v) = 0 THEN v ELSE SubSeq(v, 1, PointAt(v) - 1)

FractionPart(v) == IF PointAt(v) = 0 THEN <<>> ELSE SubSeq(v, PointAt(v) + 1, Len(v))

\* Decimal(text): digits, with an optional sign and an optional fraction
IsDecimal(v) ==
  /\ ~IsToken(v)
  /\ Cardinality({i \in DOMAIN v : v[i] = "."}) <= 1
  /\ AllDigits(IntegerPart(Unsigned(v)))
  /\ PointAt(v) /= 0 => AllDigits(FractionPart(v))

RECURSIVE DropTrailingZeros(_)
DropTrailingZeros(v) ==
  IF v = <<>> THEN v
  ELSE IF v[Len(v)] = "0" THEN DropTrailingZeros(SubSeq(v, 1, Len(v) - 1)) ELSE v

\* the decimal places the decimal_places constraint counts: the fraction's
\* digits, trailing zeros not counted
DecimalPlaces(v) == Len(DropTrailingZeros(FractionPart(v)))

DigitValue(c) ==
  CASE c = "0" -> 0 [] c = "1" -> 1 [] c = "2" -> 2 [] c = "3" -> 3 [] c = "4" -> 4
    [] c = "5" -> 5 [] c = "6" -> 6 [] c = "7" -> 7 [] c = "8" -> 8 [] c = "9" -> 9

TwoDigits(v, i) == 10 * DigitValue(v[i]) + DigitValue(v[i + 1])

\* date.fromisoformat(text): YYYY-MM-DD with a month of 1..12 and a day of 1..31
IsDate(v) ==
  /\ ~IsToken(v)
  /\ Len(v) = 10
  /\ \A i \in {1, 2, 3, 4, 6, 7, 9, 10} : v[i] \in Digits
  /\ v[5] = "-" /\ v[8] = "-"
  /\ TwoDigits(v, 6) \in 1..12
  /\ TwoDigits(v, 9) \in 1..31

\* pydantic_extra_types.country.CountryAlpha2 and currency_code.ISO4217: the
\* codes of the two ISO lists that the rows of this model use.
CountryAlpha2 == {<<"D", "E">>, <<"F", "R">>, <<"S", "E">>, <<"U", "S">>}
ISO4217 == {<<"E", "U", "R">>, <<"S", "E", "K">>, <<"U", "S", "D">>}

TypeOk(base, v) ==
  CASE base = "str" -> ~IsToken(v)
    [] base = "bool" -> v \in {True, False}
    [] base = "int" -> IsInt(v)
    [] base = "Decimal" -> IsDecimal(v)
    [] base = "date" -> IsDate(v)
    [] base = "CountryAlpha2" -> v \in CountryAlpha2
    [] base = "ISO4217" -> v \in ISO4217

-----------------------------------------------------------------------------
(* Validation of a row against its table class *)

NOT_APPLICABLE ==
  <<"N", "O", "T", "_", "A", "P", "P", "L", "I", "C", "A", "B", "L", "E">>

Returns(v) == [raised |-> FALSE, value |-> v]
Raises(v) == [raised |-> TRUE, value |-> v]

\* UsingEntity.validate_branch_code(cls, v, info)
validate_branch_code(v, data) ==
  IF ~Truthy(v) \/ ~Truthy(strip(v)) THEN Raises(v) ELSE Returns(v)

\* UsingEntity.validate_branch_id(cls, v, info), data being info.data
validate_branch_id(v, data) ==
  IF "is_branch" \in DOMAIN data /\ data["is_branch"] = True
  THEN IF ~Truthy(v) \/ ~Truthy(strip(v)) THEN Raises(v) ELSE Returns(v)
  ELSE IF "is_branch" \in DOMAIN data /\ data["is_branch"] /= True
       THEN IF ~Truthy(v) \/ ~Truthy(strip(v)) THEN Returns(NOT_APPLICABLE) ELSE Returns(v)
       ELSE Returns(v)

\* validate_entity_branch_consistency, were it to look the row up in the
\* register and raise on one already stored
validate_entity_branch_consistency_or_stored(self) ==
  \/ /\ self["is_branch"] /= True
     /\ self["branch_code"] /= NOT_APPLICABLE
     /\ Truthy(strip(self["branch_code"]))
  \/ self \in register["UsingEntity"]

\* validate_entity_branch_consistency, were branch_code not stripped before
\* it is tested
validate_entity_branch_consistency_unstripped(self) ==
  /\ self["is_branch"] /= True
  /\ self["branch_code"] /= NOT_APPLICABLE
  /\ Truthy(self["branch_code"])

\* UsingEntity.validate_entity_branch_consistency(self): whether it raises
validate_entity_branch_consistency(self) ==
  /\ self["is_branch"] /= True
  /\ self["branch_code"] /= NOT_APPLICABLE
  /\ Truthy(strip(self["branch_code"]))

CallFieldValidator(fn, v, data) ==
  CASE fn = "validate_branch_code" -> validate_branch_code(v, data)
    [] fn = "validate_branch_id" -> validate_branch_id(v, data)

CallModelValidator(fn, self) ==
  CASE fn = "validate_entity_branch_consistency" -> validate_entity_branch_consistency(self)

\* Decimal >= bound, for the one bound the tables use (ge=0)
DecimalGe(v, bound) == bound = 0 /\ ~IsNegative(v)

\* FieldError, were the regex of a field not applied
FieldErrorWithoutPattern(f, v) ==
  IF v = None THEN (IF Optional(f.type) THEN "" ELSE "missing")
  ELSE IF ~TypeOk(BaseType(f.type), v) THEN "type"
  ELSE IF Has(f, "min_length") /\ Len(v) < f.opts.min_length THEN "too_short"
  ELSE IF Has(f, "max_length") /\ Len(v) > f.opts.max_length THEN "too_long"
  ELSE IF Has(f, "ge") /\ ~DecimalGe(v, f.opts.ge) THEN "greater_than_equal"
  ELSE IF Has(f, "decimal_places") /\ DecimalPlaces(v) > f.opts.decimal_places
       THEN "decimal_max_places"
  ELSE ""

\* The declared constraints of one field on one cell value: "" when the value
\* passes, else the kind of the first constraint it fails.
FieldError(f, v) ==
  IF v = None THEN (IF Optional(f.type) THEN "" ELSE "missing")
  ELSE IF ~TypeOk(BaseType(f.type), v) THEN "type"
  ELSE IF Has(f, "min_length") /\ Len(v) < f.opts.min_length THEN "too_short"
  ELSE IF Has(f, "max_length") /\ Len(v) > f.opts.max_length THEN "too_long"
  ELSE IF Has(f, "regex") /\ ~Matches(f.opts.regex, v) THEN "pattern_mismatch"
  ELSE IF Has(f, "ge") /\ ~DecimalGe(v, f.opts.ge) THEN "greater_than_equal"
  ELSE IF Has(f, "decimal_places") /\ DecimalPlaces(v) > f.opts.decimal_places
       THEN "decimal_max_places"
  ELSE ""

\* The field validators registered for the field called name, run in the order
\* of their definition, each on the value the one before returned.
RECURSIVE RunFieldValidators(_, _, _, _, _)
RunFieldValidators(validators, i, name, v, data) ==
  IF i > Len(validators) THEN Returns(v)
  ELSE IF validators[i].field /= name
       THEN RunFieldValidators(validators, i + 1, name, v, data)
       ELSE LET r == CallFieldValidator(validators[i].fn, v, data)
            IN IF r.raised THEN r
               ELSE RunFieldValidators(validators, i + 1, name, r.value, data)

Violation(column, kind, detail) == [column |-> column, kind |-> kind, detail |-> detail]

\* The fields of a row, from the i-th on, in declaration order: data holds the
\* values validated so far (info.data), errors one violation per failing field.
RECURSIVE ValidateFields(_, _, _, _, _)
ValidateFields(m, row, i, data, errors) ==
  IF i > Len(m.fields) THEN [data |-> data, errors |-> errors]
  ELSE LET f == m.fields[i]
           v == row[f.name]
           e == FieldError(f, v)
       IN IF e /= ""
          THEN ValidateFields(m, row, i + 1, data,
                 Append(errors, Violation(f.name, "FieldValidationError", e)))
          ELSE LET r == RunFieldValidators(m.field_validators, 1, f.name, v, data)
               IN IF r.raised
                  THEN ValidateFields(m, row, i + 1, data,
                         Append(errors, Violation(f.name, "FieldValidationError", "value_error")))
                  ELSE ValidateFields(m, row, i + 1, data @@ (f.name :> r.value), errors)

\* The mode="after" model validators that raise on the validated row
ModelErrors(m, self) ==
  SelectSeq([i \in DOMAIN m.model_validators |->
               IF CallModelValidator(m.model_validators[i].fn, self)
               THEN Violation("", "CrossFieldRuleViolation", m.model_validators[i].fn)
               ELSE Violation("", "", "")],
            LAMBDA x : x.kind /= "")

Success(row) == [ok |-> TRUE, violations |-> <<>>, row |-> row]
Failure(violations, row) == [ok |-> FALSE, violations |-> violations, row |-> row]

\* validate_row(table_id, row): the fields first, every failing one reported;
\* the cross-field rules run on a row whose fields all passed.
validate_row(t, row) ==
  LET m == Model(t)
      r == ValidateFields(m, row, 1, [c \in {} |-> None], <<>>)
  IN IF r.errors /= <<>> THEN Failure(r.errors, row)
     ELSE IF ModelErrors(m, r.data) /= <<>> THEN Failure(ModelErrors(m, r.data), row)
     ELSE Success(r.data)

-----------------------------------------------------------------------------
(* Schema description and referential integrity *)

\* get_table_display_name(model_class)
get_table_display_name(model_class) == model_class.table_name

\* model_class.model_fields.get(column_name) finds a field
HasField(model_class, column_name) ==
  \E i \in DOMAIN model_class.fields : model_class.fields[i].name = column_name

\* model_class.model_fields.get(column_name), for a column that has a field
GetField(model_class, column_name) ==
  model_class.fields[CHOOSE i \in DOMAIN model_class.fields :
                       model_class.fields[i].name = column_name]

\* get_column_display_name(model_class, column_name)
get_column_display_name(model_class, column_name) ==
  IF /\ HasField(model_class, column_name)
     /\ Has(GetField(model_class, column_name), "description")
     /\ GetField(model_class, column_name).opts.description /= ""
  THEN GetField(model_class, column_name).opts.description
  ELSE column_name

\* describe(table_id): the table's regulatory code and display name, its
\* columns in order with their constraints and descriptions, and its key.
describe(t) ==
  IF t \notin TableNames THEN [error |-> "UnknownTableError"]
  ELSE [ error |-> "",
         table_code |-> Model(t).table_code,
         table_name |-> get_table_display_name(Model(t)),
         columns |-> [i \in FieldIndex(t) |->
                        [ name |-> FieldsOf(t)[i].name,
                          type |-> FieldsOf(t)[i].type,
                          constraints |-> FieldsOf(t)[i].opts,
                          description |->
                            get_column_display_name(Model(t), FieldsOf(t)[i].name) ]],
         primary_key |-> PrimaryKey(t) ]

\* The foreign-key fields of a table, in declaration order
ForeignKeyFields(t) == SelectSeq(FieldsOf(t), LAMBDA f : Has(f, "foreign_key"))

\* check_referential_integrity(table_id, row, lookup_fn): lookup_fn is called with
\* the referenced table and the key for every foreign-key column that holds a
\* value; present is the set of (table, key) pairs it answers "found" for.
check_referential_integrity(t, row, present) ==
  LET fks == ForeignKeyFields(t)
      dangling ==
        SelectSeq(fks, LAMBDA f :
          /\ row[f.name] /= None
          /\ <<f.opts.foreign_key[1], row[f.name]>> \notin present)
  IN IF dangling = <<>> THEN Success(row)
     ELSE Failure([i \in DOMAIN dangling |->
                     Violation(dangling[i].name, "DanglingReferenceError",
                               dangling[i].opts.foreign_key[1])], row)

-----------------------------------------------------------------------------
(* The rows the operations are exercised on *)

LEI_A == Rep("A", 18) \o <<"0", "1">>
LEI_B == Rep("B", 18) \o <<"0", "2">>
LEI_LOWER == Rep("a", 18) \o <<"0", "1">>      \* lower-case letters
LEI_SHORT == Rep("A", 17) \o <<"0", "1">>      \* 19 characters
LEI_NOCHECK == Rep("A", 18) \o <<"X", "Y">>    \* 20 characters, no check digits

C1ref == <<"C", "1">>
C2ref == <<"C", "2">>
T1code == <<"T", "1">>
T2code == <<"T", "2">>
S1type == <<"S", "1">>
BR1 == <<"B", "R", "1">>
XYZ == <<"X", "Y", "Z">>
Blank == <<" ", " ">>
Padded == <<" ", "X", " ">>
Acme == <<"A", "c", "m", "e">>
TooLong == Rep("x", 256)
DE == <<"D", "E">>
ZZ == <<"Z", "Z">>
EUR == <<"E", "U", "R">>
Day == <<"2", "0", "2", "4", "-", "0", "1", "-", "3", "1">>
NoDay == <<"2", "0", "2", "4", "-", "1", "3", "-", "0", "1">>
Amount == <<"1", "0", "0", ".", "5", "0">>
Amount3 == <<"1", "0", "0", ".", "9", "9", "9">>
AmountNeg == <<"-", "1", ".", "0", "0">>
AmountTrailing == <<"1", "0", "0", ".", "5", "0", "0">>
Whole == <<"1", "0", "0">>

\* A value every constraint of the field accepts
DefaultValue(f) ==
  IF Optional(f.type) THEN None
  ELSE CASE BaseType(f.type) = "str" ->
              IF Has(f, "min_length") THEN LEI_A ELSE <<"x">>
         [] BaseType(f.type) = "bool" -> False
         [] BaseType(f.type) = "int" -> <<"1">>
         [] BaseType(f.type) = "Decimal" -> Amount
         [] BaseType(f.type) = "date" -> Day
         [] BaseType(f.type) = "CountryAlpha2" -> DE
         [] BaseType(f.type) = "ISO4217" -> EUR

LeiSamples == {LEI_A, LEI_LOWER, LEI_SHORT, LEI_NOCHECK}

\* The values tried in a column when rows are validated; {} for a column that
\* keeps its default value.
ValidationSamples(t, c) ==
  CASE t = "MaintainingEntity" /\ c = "lei" -> LeiSamples
    [] t = "MaintainingEntity" /\ c = "name" -> {Acme, TooLong, None}
    [] t = "MaintainingEntity" /\ c = "country" -> {DE, ZZ}
    [] t = "MaintainingEntity" /\ c = "reporting_date" -> {Day, NoDay}
    [] t = "RegisterEntity" /\ c = "lei" -> {LEI_A, LEI_NOCHECK}
    [] t = "RegisterEntity" /\ c = "parent_lei" -> {None, LEI_B, LEI_LOWER}
    [] t = "RegisterEntity" /\ c = "total_assets" ->
         {None, Amount, Amount3, AmountNeg, AmountTrailing}
    [] t = "Branch" /\ c = "head_office_lei" -> LeiSamples
    [] t = "GeneralInformation" /\ c = "annual_expense_or_estimated_cost" ->
         {Amount, Amount3, XYZ, AmountNeg, Whole}
    [] t = "GeneralInformation" /\ c = "currency" -> {EUR, XYZ}
    [] t = "SpecificInformation" /\ c = "lei" -> LeiSamples
    [] t = "ReceivingSigningEntity" /\ c = "lei" -> LeiSamples
    [] t = "ProvidingSigningEntity" /\ c = "lei" -> LeiSamples
    [] t = "UsingEntity" /\ c = "reference_number" -> {C1ref, None}
    [] t = "UsingEntity" /\ c = "lei" -> {LEI_A, LEI_NOCHECK}
    [] t = "UsingEntity" /\ c = "is_branch" -> {True, False}
    [] t = "UsingEntity" /\ c = "branch_code" -> {<<>>, Blank, NOT_APPLICABLE, XYZ, BR1, Padded}
    [] t = "ServiceProvider" /\ c = "total_annual_expense_or_estimated_cost" ->
         {None, Amount, Amount3, AmountNeg, AmountTrailing}
    [] t = "SupplyChain" /\ c = "rank" -> {<<"1">>, XYZ}
    [] t = "FunctionIdentification" /\ c = "lei" -> LeiSamples
    [] t = "FunctionIdentification" /\ c = "function_name" -> {Acme, TooLong}
    [] OTHER -> {}

\* The values tried in a column when rows are written to the register
StoreSamples(t, c) ==
  CASE t = "MaintainingEntity" /\ c = "name" -> {Acme, None}
    [] t = "RegisterEntity" /\ c = "lei" -> {LEI_A, LEI_B}
    [] t = "RegisterEntity" /\ c = "parent_lei" -> {None, LEI_A}
    [] t = "Branch" /\ c = "head_office_lei" -> {LEI_A, LEI_B}
    [] t = "GeneralInformation" /\ c = "reference_number" -> {C1ref}
    [] t = "GeneralInformation" /\ c = "overarching_reference_number" -> {None, C1ref, C2ref}
    [] t = "ServiceProvider" /\ c = "tpp_code" -> {T1code}
    [] t = "ServiceProvider" /\ c = "ultimate_parent_undertaking_tpp_code" -> {T1code, T2code}
    [] t = "ICTServicesType" /\ c = "identifier" -> {S1type}
    [] t = "UsingEntity" /\ c = "branch_code" -> {NOT_APPLICABLE}
    [] t /= "GeneralInformation" /\ c = "reference_number" -> {C1ref}
    [] c = "linked_contractual_arrangement_with_ict_tpp" -> {C1ref}
    [] t /= "ServiceProvider" /\ c = "tpp_code" -> {T1code}
    [] c = "ict_services_type" -> {S1type}
    [] OTHER -> {}

Samples(mode, t, f) ==
  LET s == IF mode = "validate" THEN ValidationSamples(t, f.name)
           ELSE StoreSamples(t, f.name)
  IN IF s = {} THEN {DefaultValue(f)} ELSE s

\* Every row made of one sample per column, over the first i fields of the table
RECURSIVE RowsUpTo(_, _, _)
RowsUpTo(mode, t, i) ==
  IF i = 0 THEN {[c \in {} |-> None]}
  ELSE {r @@ (FieldsOf(t)[i].name :> v) :
          r \in RowsUpTo(mode, t, i - 1), v \in Samples(mode, t, FieldsOf(t)[i])}

ValidationRows(t) == RowsUpTo("validate", t, Len(FieldsOf(t)))
StoreRows(t) == RowsUpTo("store", t, Len(FieldsOf(t)))

-----------------------------------------------------------------------------
(* The register: the tables db.py creates, and writes to them *)

\* The most rows the register holds in this model
MaxRows == 4

\* What the created tables hold of each class: its constraints, and the rows
\* written to it in this model
Metadata ==
  [t \in TableNames |->
     [ not_null |-> NotNullColumns(t),
       primary_key |-> PrimaryKey(t),
       foreign_keys |-> ForeignKeys(t),
       store_rows |-> StoreRows(t),
       validation_rows |-> ValidationRows(t) ]]

TotalRows == Cardinality(UNION {{<<t, r>> : r \in register[t]} : t \in TableNames})

\* The rows of the referenced table a foreign key of row may point at: the
\* stored ones and, for a reference to the row's own table, the row itself.
Targets(t, row, fk) ==
  register[fk.ref_table] \cup (IF fk.ref_table = t THEN {row} ELSE {})

\* InsertAccepted, were the foreign keys of the tables not enforced
InsertAcceptedWithoutForeignKeys(t, row) ==
  /\ \A c \in Metadata[t].not_null : row[c] /= None
  /\ \A r \in register[t] : \E c \in Metadata[t].primary_key : r[c] /= row[c]

\* The constraints of the created table on a new row: NOT NULL columns, a
\* unique primary key, and every declared foreign key naming an existing row.
InsertAccepted(t, row) ==
  /\ \A c \in Metadata[t].not_null : row[c] /= None
  /\ \A r \in register[t] : \E c \in Metadata[t].primary_key : r[c] /= row[c]
  /\ \A fk \in Metadata[t].foreign_keys :
       \/ row[fk.column] = None
       \/ \E r \in Targets(t, row, fk) : r[fk.ref_column] = row[fk.column]

Called(op, t, row, present, result) ==
  [op |-> op, table |-> t, row |-> row, present |-> present, result |-> result]

\* Insert, were a write with the key of a stored row to replace that row
InsertOrReplace(t, row) ==
  LET same_key == {r \in register[t] : \A c \in Metadata[t].primary_key : r[c] = row[c]}
  IN /\ TotalRows < MaxRows \/ same_key /= {}
     /\ register' = [register EXCEPT ![t] = (@ \ same_key) \cup {row}]
     /\ call' = Called("insert", t, row, {}, Success(row))
     /\ UNCHANGED log

\* A row is written to table t: stored when the table's constraints accept it,
\* refused with the register untouched otherwise.
Insert(t, row) ==
  /\ InsertAccepted(t, row) => TotalRows < MaxRows
  /\ register' = IF InsertAccepted(t, row)
                 THEN [register EXCEPT ![t] = @ \cup {row}]
                 ELSE register
  /\ call' = Called("insert", t, row, {},
               IF InsertAccepted(t, row) THEN Success(row)
               ELSE Failure(<<Violation("", "IntegrityError", t)>>, row))
  /\ UNCHANGED log

\* validate_row is called on a row; the result of a row's first validation is
\* kept in log, with whether the register held the row then.
ValidateRow(t, row) ==
  /\ call' = Called("validate_row", t, row, {}, validate_row(t, row))
  /\ log' = IF <<t, row>> \in DOMAIN log THEN log
            ELSE log @@ (<<t, row>> :> [result |-> validate_row(t, row), stored |-> row \in register[t]])
  /\ UNCHANGED register

\* validate_row is called on a row, nothing kept
Validate(t, row) ==
  /\ call' = Called("validate_row", t, row, {}, validate_row(t, row))
  /\ UNCHANGED <<register, log>>

Describe(t) ==
  /\ call' = Called("describe", t, None, {}, describe(t))
  /\ UNCHANGED <<register, log>>

\* The (table, key) pairs the lookup callback is asked about for a row
LookupKeys(t, row) ==
  {<<fk.ref_table, row[fk.column]>> : fk \in Metadata[t].foreign_keys}

CheckReferentialIntegrity(t, row, present) ==
  /\ call' = Called("check_referential_integrity", t, row, present,
                    check_referential_integrity(t, row, present))
  /\ UNCHANGED <<register, log>>

Init ==
  /\ register = [t \in TableNames |-> {}]
  /\ log = [k \in {} |-> None]
  /\ call = Called("none", "", None, {}, None)

\* The register under writes
Next == \E t \in TableNames : \E row \in Metadata[t].store_rows : Insert(t, row)

Spec == Init /\ [][Next]_vars

\* The tables and rows of the register when validation and writes interleave
GateTables == {"RegisterEntity", "GeneralInformation", "UsingEntity"}

GateRowsOf(t) ==
  IF t = "UsingEntity"
  THEN {r \in ValidationRows(t) : r["lei"] = LEI_A /\ r["reference_number"] = C1ref
                                  /\ r["branch_code"] \in {<<>>, XYZ}
                                  /\ r["is_branch"] = False}
  ELSE {r \in StoreRows(t) :
          /\ t = "RegisterEntity" => r["parent_lei"] = None /\ r["lei"] = LEI_A
          /\ t = "GeneralInformation" =>
               r["overarching_reference_number"] = None /\ r["reference_number"] = C1ref}

GateRows == [t \in GateTables |-> GateRowsOf(t)]

NextGate ==
  \/ \E t \in GateTables : \E row \in GateRows[t] : ValidateRow(t, row)
  \/ \E t \in GateTables : \E row \in GateRows[t] : Insert(t, row)

SpecGate == Init /\ [][NextGate]_vars

\* The operations of the validator, each on every sample row of every table
NextPure ==
  \/ \E t \in TableNames : \E row \in Metadata[t].validation_rows : Validate(t, row)
  \/ \E t \in TableNames \cup {"Unknown"} : Describe(t)
  \/ \E t \in TableNames : \E row \in Metadata[t].validation_rows :
       \E present \in SUBSET LookupKeys(t, row) :
         CheckReferentialIntegrity(t, row, present)

SpecPure == Init /\ [][NextPure]_vars

-----------------------------------------------------------------------------
(* Claims about validate_row, describe and check_referential_integrity,      *)
(* under SpecPure                                                            *)

Validated == call.op = "validate_row"

ViolationColumns(result) == [i \in DOMAIN result.violations |-> result.violations[i].column]

Reports(result, column, kind) ==
  \E i \in DOMAIN result.violations :
    result.violations[i].column = column /\ result.violations[i].kind = kind

ReportsKind(result, kind) ==
  \E i \in DOMAIN result.violations : result.violations[i].kind = kind

\* The row is valid but for its branch fields: it validates with them set to
\* is_branch=False, branch_code="NOT_APPLICABLE".
OtherwiseValid(t, row) ==
  validate_row(t, [row EXCEPT !["is_branch"] = False, !["branch_code"] = NOT_APPLICABLE]).ok

\* C1: an otherwise valid ServiceUser (UsingEntity) row is accepted when
\* is_branch is false and branch_code is "NOT_APPLICABLE", rejected with a
\* cross-field rule violation when is_branch is false and branch_code is any
\* other non-empty value, rejected with a cross-field rule violation when
\* is_branch is true and branch_code is empty, and accepted when is_branch is
\* true and branch_code is non-empty.
C1_BranchConsistencyRule ==
  (Validated /\ call.table = "UsingEntity" /\ OtherwiseValid(call.table, call.row)) =>
    LET is_branch == call.row["is_branch"] = True
        branch_code == call.row["branch_code"]
    IN /\ (~is_branch /\ branch_code = NOT_APPLICABLE) => call.result.ok
       /\ (~is_branch /\ branch_code /= NOT_APPLICABLE /\ branch_code /= <<>>) =>
            ~call.result.ok /\ ReportsKind(call.result, "CrossFieldRuleViolation")
       /\ (is_branch /\ branch_code = <<>>) =>
            ~call.result.ok /\ ReportsKind(call.result, "CrossFieldRuleViolation")
       /\ (is_branch /\ branch_code /= <<>>) => call.result.ok

\* C2: an otherwise valid ServiceUser row with is_branch false and an empty
\* branch_code is accepted with branch_code normalized to "NOT_APPLICABLE", and
\* every accepted row with is_branch false has branch_code "NOT_APPLICABLE".
C2_EmptyBranchCodeNormalized ==
  (Validated /\ call.table = "UsingEntity" /\ call.row["is_branch"] = False) =>
    /\ (call.row["branch_code"] = <<>> /\ OtherwiseValid(call.table, call.row)) =>
         call.result.ok
    /\ call.result.ok => call.result.row["branch_code"] = NOT_APPLICABLE

\* The LEI-typed columns of each table
LeiColumns(t) ==
  CASE t = "MaintainingEntity" -> {"lei"}
    [] t = "RegisterEntity" -> {"lei", "parent_lei"}
    [] t = "Branch" -> {"head_office_lei"}
    [] t = "SpecificInformation" -> {"lei"}
    [] t = "ReceivingSigningEntity" -> {"lei"}
    [] t = "ProvidingSigningEntity" -> {"lei"}
    [] t = "UsingEntity" -> {"lei"}
    [] t = "FunctionIdentification" -> {"lei"}
    [] OTHER -> {}

\* C7: for a row whose value in a LEI-typed column does not match
\* ^[0-9A-Z]{18}[0-9]{2}$, validation reports a field violation on that column,
\* so no accepted row holds a LEI that fails the pattern.
C7_LeiColumnsMatchPattern ==
  Validated =>
    \A c \in LeiColumns(call.table) :
      (call.row[c] /= None /\ ~MatchLEI(call.row[c])) =>
        ~call.result.ok /\ Reports(call.result, c, "FieldValidationError")

\* "B.xx.yy": B, a point, two digits, a point, two digits
IsRegulatoryCode(code) ==
  /\ code /= None
  /\ Len(code) = 7
  /\ code[1] = "B" /\ code[2] = "." /\ code[5] = "."
  /\ \A i \in {3, 4, 6, 7} : code[i] \in Digits

ExpectedBad(t, c) ==
  CASE t \in {"MaintainingEntity", "Branch", "SpecificInformation",
              "ReceivingSigningEntity", "ProvidingSigningEntity"}
         /\ c \in {"lei", "head_office_lei"} -> {LEI_LOWER, LEI_SHORT, LEI_NOCHECK}
    [] t \in {"RegisterEntity", "UsingEntity"} /\ c = "lei" -> {LEI_NOCHECK}
    [] t = "RegisterEntity" /\ c = "parent_lei" -> {LEI_LOWER}
    [] t = "FunctionIdentification" /\ c = "lei" -> {LEI_SHORT}
    [] t = "MaintainingEntity" /\ c = "name" -> {TooLong, None}
    [] t = "MaintainingEntity" /\ c = "country" -> {ZZ}
    [] t = "MaintainingEntity" /\ c = "reporting_date" -> {NoDay}
    [] t = "RegisterEntity" /\ c = "total_assets" -> {Amount3, AmountNeg}
    [] t = "GeneralInformation" /\ c = "annual_expense_or_estimated_cost" -> {Amount3, XYZ}
    [] t = "GeneralInformation" /\ c = "currency" -> {XYZ}
    [] t = "UsingEntity" /\ c = "reference_number" -> {None}
    [] t = "ServiceProvider" /\ c = "total_annual_expense_or_estimated_cost" -> {Amount3}
    [] t = "SupplyChain" /\ c = "rank" -> {XYZ}
    [] t = "FunctionIdentification" /\ c = "function_name" -> {TooLong}
    [] OTHER -> {}

\* The sample rows that break a cross-field rule of their table
ExpectedCrossField(t, row) ==
  /\ t = "UsingEntity"
  /\ row["is_branch"] = False
  /\ row["branch_code"] \in {XYZ, BR1, Padded}

\* The columns of the validated row that hold a bad value, in declaration order
FailingColumns == SelectSeq(ColumnNames(call.table),
                            LAMBDA c : call.row[c] \in ExpectedBad(call.table, c))

\* C6: validate_row returns success or a non-empty ordered collection with one
\* violation for each failing field: all k failing fields of a row are
\* reported, in column order, and a row with no failing field and no
\* cross-field violation yields success.
C6_EveryFailingFieldReported ==
  Validated =>
    /\ call.result.ok \/ call.result.violations /= <<>>
    /\ call.result.ok => call.result.violations = <<>>
    /\ FailingColumns /= <<>> =>
         /\ ~call.result.ok
         /\ ViolationColumns(call.result) = FailingColumns
         /\ \A i \in DOMAIN call.result.violations :
              call.result.violations[i].kind = "FieldValidationError"
    /\ FailingColumns = <<>> =>
         /\ call.result.ok <=> ~ExpectedCrossField(call.table, call.row)
         /\ ~call.result.ok => ReportsKind(call.result, "CrossFieldRuleViolation")

\* A row with four failing fields has been validated, all four reported
C6_Witness ==
  /\ Validated
  /\ Len(FailingColumns) = 4
  /\ Len(call.result.violations) = 4

\* The foreign keys of each table: column and referenced table
DocumentedForeignKeys(t) ==
  LET fk(c, ref) == [column |-> c, ref_table |-> ref]
  IN CASE t = "RegisterEntity" -> {fk("parent_lei", "RegisterEntity")}
       [] t = "Branch" -> {fk("head_office_lei", "RegisterEntity")}
       [] t = "GeneralInformation" ->
            {fk("overarching_reference_number", "GeneralInformation")}
       [] t \in {"SpecificInformation", "ReceivingSigningEntity",
                 "ProvidingSigningEntity", "UsingEntity"} ->
            {fk("reference_number", "GeneralInformation"), fk("lei", "RegisterEntity")}
       [] t = "IntraGroup" ->
            {fk("linked_contractual_arrangement_with_ict_tpp", "GeneralInformation")}
       [] t = "SigningServiceProvider" -> {fk("reference_number", "GeneralInformation")}
       [] t \in {"SupplyChain", "Assessment"} ->
            {fk("reference_number", "GeneralInformation"),
             fk("ict_services_type", "ICTServicesType"),
             fk("tpp_code", "ServiceProvider")}
       [] t = "FunctionIdentification" -> {fk("lei", "RegisterEntity")}
       [] OTHER -> {}

\* The foreign keys of the checked row whose value the callback reports absent
Absent ==
  {fk \in DocumentedForeignKeys(call.table) :
     /\ call.row[fk.column] /= None
     /\ <<fk.ref_table, call.row[fk.column]>> \notin call.present}

\* C8: check_referential_integrity succeeds when the callback reports every
\* foreign-key value present, and otherwise returns a DanglingReferenceError
\* for exactly the columns whose value the callback reports absent, each with
\* its referenced table.
C8_DanglingColumnNamed ==
  call.op = "check_referential_integrity" =>
    /\ call.result.ok <=> Absent = {}
    /\ \A fk \in Absent :
         \E i \in DOMAIN call.result.violations :
           call.result.violations[i] =
             Violation(fk.column, "DanglingReferenceError", fk.ref_table)
    /\ \A i \in DOMAIN call.result.violations :
         \E fk \in Absent : call.result.violations[i].column = fk.column

\* A SupplyChain row has been checked with the provider reported absent and the
\* contract and the service type present: tpp_code alone is named
C8_Witness ==
  /\ call.op = "check_referential_integrity"
  /\ call.table = "SupplyChain"
  /\ Cardinality(call.present) = 2
  /\ call.result.violations = <<Violation("tpp_code", "DanglingReferenceError", "ServiceProvider")>>

-----------------------------------------------------------------------------
(* Claims about the register under writes, under Spec *)

\* The key column a foreign key into a table names
KeyColumn(ref_table) ==
  CASE ref_table = "RegisterEntity" -> "lei"
    [] ref_table = "GeneralInformation" -> "reference_number"
    [] ref_table = "ICTServicesType" -> "identifier"
    [] ref_table = "ServiceProvider" -> "tpp_code"

\* The value of foreign key fk in row is NULL or the key of a row among rows
Resolves(row, fk, rows) ==
  \/ row[fk.column] = None
  \/ \E r \in rows : r[KeyColumn(fk.ref_table)] = row[fk.column]

\* The last write was of a row one of whose foreign keys has no target row
WroteDangling ==
  /\ call.op = "insert"
  /\ \E fk \in DocumentedForeignKeys(call.table) :
       ~Resolves(call.row, fk,
                 register[fk.ref_table] \cup
                   (IF fk.ref_table = call.table THEN {call.row} ELSE {}))

SelfReferences ==
  { <<"RegisterEntity", "parent_lei", "lei">>,
    <<"GeneralInformation", "overarching_reference_number", "reference_number">>,
    <<"ServiceProvider", "ultimate_parent_undertaking_tpp_code", "tpp_code">> }

\* C4: in every reachable state a non-null parent_lei,
\* overarching_reference_number or ultimate-parent provider code of a stored
\* row is the key of an existing row of the same table.
C4_SelfReferencesExist ==
  \A s \in SelfReferences : \A row \in register[s[1]] :
    row[s[2]] /= None => \E r \in register[s[1]] : r[s[3]] = row[s[2]]

-----------------------------------------------------------------------------
(* Claims about validation and writes together, under SpecGate *)

ValidatedOk(t, row) == <<t, row>> \in DOMAIN log /\ log[<<t, row>>].result.ok

\* C5: a row is in the register only if validate_row succeeded on it before
\* the write, and a write of a row whose validation failed or that was never
\* validated is refused.
C5_ValidatedBeforeWrite ==
  /\ \A t \in TableNames : \A row \in register[t] : ValidatedOk(t, row)
  /\ (call.op = "insert" /\ ~ValidatedOk(call.table, call.row)) => ~call.result.ok

-----------------------------------------------------------------------------
(* The lifecycle of a row: written once, and a register entity removed
   logically by its deletion_date *)

\* The tables of the register that hold or reference a register entity's LEI
LifecycleTables == {"RegisterEntity", "Branch", "MaintainingEntity"}

LifecycleRows == [t \in LifecycleTables |-> StoreRows(t)]

\* The deletion_date of a stored register entity is set: the row stays, with
\* every other column as it was, and no other row is touched.
SetDeletionDate(row, d) ==
  /\ row \in register["RegisterEntity"]
  /\ row["deletion_date"] = None
  /\ register' = [register EXCEPT !["RegisterEntity"] =
                    (@ \ {row}) \cup {[row EXCEPT !["deletion_date"] = d]}]
  /\ call' = Called("set_deletion_date", "RegisterEntity", row, {},
                    Success([row EXCEPT !["deletion_date"] = d]))
  /\ UNCHANGED log

NextLifecycle ==
  \/ \E t \in LifecycleTables : \E row \in LifecycleRows[t] : Insert(t, row)
  \/ \E row \in register["RegisterEntity"] : SetDeletionDate(row, Day)

SpecLifecycle == Init /\ [][NextLifecycle]_vars

\* Row r of table t as it is after a step: itself, or, for a register entity,
\* itself with another deletion_date
Kept(t, r, r2) ==
  \/ r2 = r
  \/ /\ t = "RegisterEntity"
     /\ r2 = [r EXCEPT !["deletion_date"] = r2["deletion_date"]]

-----------------------------------------------------------------------------
(* Claims about the monetary columns, under SpecPure *)

\* The monetary columns: table and column
MonetaryColumns ==
  { <<"RegisterEntity", "total_assets">>,
    <<"GeneralInformation", "annual_expense_or_estimated_cost">>,
    <<"ServiceProvider", "total_annual_expense_or_estimated_cost">> }

\* The fractional digits of a decimal value: the position after the point of
\* its last digit other than 0, so that 100.50 has one and 100.999 three
FractionalDigits(v) ==
  LET point == {i \in DOMAIN v : v[i] = "."}
      last == {i \in DOMAIN v : \E p \in point : i > p /\ v[i] /= "0"}
  IN IF last = {} THEN 0
     ELSE (CHOOSE i \in last : \A j \in last : j <= i) - (CHOOSE p \in point : TRUE)

\* A decimal value below zero: a minus sign and a digit other than 0
BelowZero(v) == Head(v) = "-" /\ \E i \in DOMAIN v : v[i] \in {"1", "2", "3", "4", "5", "6", "7", "8", "9"}

\* C12: a monetary column (total_assets, annual_expense_or_estimated_cost,
\* total_annual_expense_or_estimated_cost) holding a decimal value is reported
\* as a field violation exactly when the value has more than 2 fractional
\* digits or, for total_assets, is below 0: 100.999 is rejected and 100.50 is
\* accepted.
C12_MonetaryTwoDecimalPlaces ==
  Validated =>
    \A c \in {mc[2] : mc \in {x \in MonetaryColumns : x[1] = call.table}} :
      LET v == call.row[c]
      IN (v /= None /\ IsDecimal(v)) =>
           ( Reports(call.result, c, "FieldValidationError")
             <=> \/ FractionalDigits(v) > 2
                 \/ c = "total_assets" /\ BelowZero(v) )

\* A provider's total annual expense of 100.999 is rejected, the row being
\* valid in every other column
C12_Witness ==
  /\ Validated
  /\ call.table = "ServiceProvider"
  /\ call.row["total_annual_expense_or_estimated_cost"] = Amount3
  /\ ViolationColumns(call.result) = <<"total_annual_expense_or_estimated_cost">>
-----------------------------------------------------------------------------
(* Claims about the after-construction check of UsingEntity, under SpecPure *)

\* The value has a character that is not whitespace
HasNonWhitespace(v) == \E i \in DOMAIN v : v[i] \notin Whitespace

\* C13: on a UsingEntity row whose fields all pass, the after-construction
\* check (validate_entity_branch_consistency) rejects exactly when is_branch
\* is false, branch_code is not "NOT_APPLICABLE" and branch_code has a
\* non-whitespace character; so it never rejects a row with is_branch true,
\* and a row with is_branch false and an empty or whitespace-only branch_code
\* is accepted with its branch_code unchanged.
C13_ConsistencyCheckExact ==
  (Validated /\ call.table = "UsingEntity"
     /\ ~ReportsKind(call.result, "FieldValidationError")) =>
    LET is_branch == call.row["is_branch"] = True
        branch_code == call.row["branch_code"]
    IN /\ ReportsKind(call.result, "CrossFieldRuleViolation")
            <=> (~is_branch /\ branch_code /= NOT_APPLICABLE
                   /\ HasNonWhitespace(branch_code))
       /\ call.result.ok <=> ~ReportsKind(call.result, "CrossFieldRuleViolation")
       /\ call.result.ok => call.result.row["branch_code"] = branch_code

\* A row with is_branch false and a whitespace-only branch_code, accepted with
\* the branch_code as it was given
C13_Witness ==
  /\ Validated
  /\ call.table = "UsingEntity"
  /\ call.row["is_branch"] = False
  /\ call.row["branch_code"] = Blank
  /\ call.result.ok
  /\ call.result.row["branch_code"] = Blank
-----------------------------------------------------------------------------
(* Claims about the foreign-key graph of the tables, under Spec *)

\* The other tables the foreign keys of a table reference
References(t) == {fk.ref_table : fk \in Metadata[t].foreign_keys} \ {t}

\* The tables reached from the tables of S by one to n references
RECURSIVE ReferencedWithin(_, _)
ReferencedWithin(S, n) ==
  IF n = 0 THEN {}
  ELSE LET next == UNION {References(t) : t \in S}
       IN next \cup ReferencedWithin(next, n - 1)

\* The tables that reference no other table
RootTables == {"RegisterEntity", "GeneralInformation", "ServiceProvider", "ICTServicesType"}

\* The declared foreign keys of a table to the table itself
SelfKeys(t) == {fk \in Metadata[t].foreign_keys : fk.ref_table = t}

\* A row for table t made of a sample row: every foreign key to another table
\* takes the key of a row that table holds, every foreign key to t itself is
\* null.
FirstRow(t, row) ==
  [c \in DOMAIN row |->
     IF \E fk \in Metadata[t].foreign_keys : fk.column = c
     THEN LET fk == CHOOSE k \in Metadata[t].foreign_keys : k.column = c
          IN IF fk.ref_table = t THEN None
             ELSE (CHOOSE r \in register[fk.ref_table] : TRUE)[fk.ref_column]
     ELSE row[c]]

\* C14: the references between distinct tables form no cycle, RegisterEntity,
\* GeneralInformation, ServiceProvider and ICTServicesType reference no other
\* table, the declared self-references are parent_lei and
\* overarching_reference_number and both are nullable; and in every state an
\* empty table whose referenced tables all hold a row accepts the write of a
\* first row, so every table can be populated from the empty register.
C14_PopulationAdmitted ==
  /\ \A t \in TableNames : t \notin ReferencedWithin({t}, Cardinality(TableNames))
  /\ \A t \in RootTables : References(t) = {}
  /\ UNION {{<<t, fk.column>> : fk \in SelfKeys(t)} : t \in TableNames}
       = { <<"RegisterEntity", "parent_lei">>,
           <<"GeneralInformation", "overarching_reference_number">> }
  /\ \A t \in TableNames : \A fk \in SelfKeys(t) : fk.column \notin Metadata[t].not_null
  /\ \A t \in TableNames :
       (register[t] = {} /\ \A u \in References(t) : register[u] /= {}) =>
         \E row \in Metadata[t].store_rows : InsertAccepted(t, FirstRow(t, row))

\* An assessment written and stored, after the general information, the
\* provider and the service type it references
C14_Witness ==
  /\ register["Assessment"] /= {}
  /\ call.op = "insert"
  /\ call.table = "Assessment"
  /\ call.result.ok

====
